---- MODULE Spec2Model ----
(***************************************************************************)
(* Model of gui11.py: the Open-Meteo fetcher, the three view filters, the  *)
(* KPI status classifier, the CSV export control and the Tk refresh        *)
(* timers of the Realtime / Forecast / Period / About views.               *)
(*                                                                         *)
(* Time is counted in minutes since day 0, 00:00.  A timestamp is such a   *)
(* number; its calendar date is the number of whole days in it.            *)
(* Averages are exact rationals [num, den] (sum of a column, row count).   *)
(***************************************************************************)
EXTENDS Integers, Sequences, FiniteSets, TLC

VARIABLES
    \* ---- the running program (specification Spec) ----
    pc,         \* "start": before line 503; "mainloop": inside root.mainloop(); "crashed": line 503 raised
    clock,      \* wall clock, minutes (what datetime.now() returns)
    view,       \* which show_* function filled content_frame last
    gen,        \* generation of content_frame's children: each show_* call builds new frames
    opened_at,  \* clock value when the current view was built
    wilayah,    \* wilayah_var of the current view (the request's coordinates)
    cal,        \* start_cal / end_cal of the Period view: [start, end, today]
    graph,      \* children of the current graph_frame
    kpi,        \* children of the current kpi_frame
    tree,       \* rows of the Period view's Treeview
    buttons,    \* tk.Button widgets packed in content_frame, in pack order
    timers,     \* pending root.after callbacks, in firing order
    last,       \* the handler that ran last: trigger, closure generation, outcome, file written
    runs,       \* clock values of the last two timer-driven refreshes of the current view
    \* ---- the fetcher and the filters alone (specification SpecFetch) ----
    f_stage, f_resp, f_res, f_pred, f_out, f_again,
    \* ---- the status classifier alone (specification SpecKpi) ----
    k_in, k_out, k_prev

gui_vars == <<pc, clock, view, gen, opened_at, wilayah, cal, graph, kpi, tree,
              buttons, timers, last, runs>>
fetch_vars == <<f_stage, f_resp, f_res, f_pred, f_out, f_again>>
kpi_vars == <<k_in, k_out, k_prev>>
vars == <<gui_vars, fetch_vars, kpi_vars>>

(***************************************************************************)
(* Bounds of the model.                                                    *)
(***************************************************************************)
MaxLen == 2        \* longest array of a payload
MaxDate == 1       \* payload dates range over 0..MaxDate
MaxGen == 2        \* view openings in one run
MaxTimers == 2     \* pending root.after callbacks
MaxTicks == 3      \* clock ticks in one run

(***************************************************************************)
(* Calendar arithmetic behind pandas' Timestamp, .dt.date and strftime.    *)
(***************************************************************************)
MinutesPerHour == 60
MinutesPerDay == 1440
MsPerMinute == 60000

DateOf(ts) == ts \div MinutesPerDay
HourOf(ts) == (ts % MinutesPerDay) \div MinutesPerHour
MinuteOf(ts) == ts % MinutesPerHour

\* pd.to_datetime on one ISO-8601 string "YYYY-MM-DDTHH:00"
to_datetime(raw) == raw.date * MinutesPerDay + raw.hour * MinutesPerHour

(***************************************************************************)
(* The fetcher, get_air_quality_data.                                      *)
(***************************************************************************)
\* pd.DataFrame({"Waktu": [], "CO2_ppm": [], "CH4_ppb": []}): no rows, and a
\* Waktu column that is not datetime-like (dt = FALSE).
EmptyFrame == [dt |-> FALSE, rows |-> <<>>]

empty(df) == Len(df.rows) = 0

\* the lengths of the columns that are arrays
ArrayLens(times, co2, ch4) ==
    {Len(f.items) : f \in {x \in {times, co2, ch4} : x.shape = "array"}}

\* value of column field f at row i: a scalar is broadcast to every row
Cell(f, i) == IF f.shape = "scalar" THEN f.items[1] ELSE f.items[i]

\* pd.DataFrame({...}) of three columns, each an array or a scalar
DataFrame(times, co2, ch4) ==
    LET lens == ArrayLens(times, co2, ch4)
    IN  IF lens = {} \/ Cardinality(lens) > 1
        THEN [exc |-> "ValueError", df |-> EmptyFrame]
        ELSE LET n == CHOOSE k \in lens : TRUE
             IN  [exc |-> "none",
                  df |-> [dt |-> TRUE,
                          rows |-> [i \in 1..n |->
                                      [Waktu |-> Cell(times, i),
                                       CO2_ppm |-> Cell(co2, i),
                                       CH4_ppb |-> Cell(ch4, i)]]]]

\* the body of the try block, lines 50-57: the exception it raises, or its result
try_body(resp) ==
    CASE resp.kind = "transport_error" -> [exc |-> "ConnectionError", df |-> EmptyFrame]
      [] resp.kind = "timeout" -> [exc |-> "Timeout", df |-> EmptyFrame]
      [] resp.kind = "not_json" -> [exc |-> "JSONDecodeError", df |-> EmptyFrame]
      [] resp.kind = "json_number" -> [exc |-> "TypeError", df |-> EmptyFrame]
      [] resp.kind = "json_array" -> [exc |-> "none", df |-> EmptyFrame]
      [] OTHER ->
           IF resp.hourly = "missing" THEN [exc |-> "none", df |-> EmptyFrame]
           ELSE IF resp.hourly = "null" THEN [exc |-> "TypeError", df |-> EmptyFrame]
           ELSE IF resp.time.shape = "missing" THEN [exc |-> "KeyError", df |-> EmptyFrame]
           ELSE IF \E i \in DOMAIN resp.time.items : ~resp.time.items[i].ok
                THEN [exc |-> "ParserError", df |-> EmptyFrame]
           ELSE IF resp.carbon_dioxide.shape = "missing" \/ resp.methane.shape = "missing"
                THEN [exc |-> "KeyError", df |-> EmptyFrame]
           ELSE DataFrame([shape |-> resp.time.shape,
                           items |-> [i \in DOMAIN resp.time.items |->
                                        to_datetime(resp.time.items[i])]],
                          resp.carbon_dioxide, resp.methane)

\* mutant: arrays of unequal length are cut to the shortest instead of rejected
get_air_quality_data_truncating(resp) ==
    LET r == try_body(resp)
        lens == (IF resp.time.shape = "array" THEN {Len(resp.time.items)} ELSE {})
                \cup (IF resp.carbon_dioxide.shape = "array"
                      THEN {Len(resp.carbon_dioxide.items)} ELSE {})
                \cup (IF resp.methane.shape = "array" THEN {Len(resp.methane.items)} ELSE {})
        n == IF lens = {} THEN 0 ELSE CHOOSE k \in lens : \A j \in lens : k <= j
        cut(f) == IF f.shape = "array" THEN [f EXCEPT !.items = SubSeq(f.items, 1, n)] ELSE f
    IN  IF r.exc = "ValueError"
        THEN [raised |-> "none",
              df |-> try_body([resp EXCEPT !.time = cut(resp.time),
                                           !.carbon_dioxide = cut(resp.carbon_dioxide),
                                           !.methane = cut(resp.methane)]).df]
        ELSE [raised |-> "none", df |-> IF r.exc = "none" THEN r.df ELSE EmptyFrame]

\* lines 49-59: try ... except Exception: return the empty frame
get_air_quality_data(resp) ==
    LET r == try_body(resp)
    IN  [raised |-> "none", df |-> IF r.exc = "none" THEN r.df ELSE EmptyFrame]

(***************************************************************************)
(* The three view filters.                                                 *)
(***************************************************************************)
\* df["Waktu"].dt raises AttributeError unless the column is datetime-like
dt_accessor_raises(df) == ~df.dt

\* mutant: the mask is shifted by one row, so the first selected row is lost
filter_today_shifted(df, today) ==
    LET sel == SelectSeq(df.rows, LAMBDA r : DateOf(r.Waktu) = today)
    IN  [dt |-> df.dt, rows |-> IF sel = <<>> THEN sel ELSE Tail(sel)]

\* line 265: df[df["Waktu"].dt.date == today]
filter_today(df, today) ==
    [dt |-> df.dt, rows |-> SelectSeq(df.rows, LAMBDA r : DateOf(r.Waktu) = today)]

\* line 306: df[df["Waktu"] > now]
filter_future(df, now) ==
    [dt |-> df.dt, rows |-> SelectSeq(df.rows, LAMBDA r : r.Waktu > now)]

\* lines 389-390: df[(df["Waktu"].dt.date >= start_date) & (df["Waktu"].dt.date <= end_date)]
filter_period(df, start_date, end_date) ==
    [dt |-> df.dt,
     rows |-> SelectSeq(df.rows, LAMBDA r : DateOf(r.Waktu) >= start_date
                                            /\ DateOf(r.Waktu) <= end_date)]

apply_filter(df, p) ==
    CASE p.kind = "today" -> filter_today(df, p.a)
      [] p.kind = "future" -> filter_future(df, p.a)
      [] OTHER -> filter_period(df, p.a, p.b)

RECURSIVE IsSubSeq(_, _)
\* s is t with some elements left out, the rest in t's order
IsSubSeq(s, t) ==
    IF s = <<>> THEN TRUE
    ELSE IF t = <<>> THEN FALSE
    ELSE IF Head(s) = Head(t) THEN IsSubSeq(Tail(s), Tail(t))
    ELSE IsSubSeq(s, Tail(t))

(***************************************************************************)
(* The status classifier of show_kpi.                                      *)
(***************************************************************************)
CO2_WASPADA == 450
CO2_TINGGI == 500
CH4_WASPADA == 1950
CH4_TINGGI == 2000

RECURSIVE SumCol(_, _)
SumCol(rows, col) == IF rows = <<>> THEN 0 ELSE Head(rows)[col] + SumCol(Tail(rows), col)

\* df[col].mean(), as the exact fraction sum / count
mean(df, col) == [num |-> SumCol(df.rows, col), den |-> Len(df.rows)]

\* mutant: the upper edge of the Waspada band is excluded
status_co2_open_band(co2_avg) ==
    IF co2_avg.num < CO2_WASPADA * co2_avg.den THEN "Normal"
    ELSE IF CO2_WASPADA * co2_avg.den <= co2_avg.num
            /\ co2_avg.num < CO2_TINGGI * co2_avg.den THEN "Waspada"
    ELSE "Tinggi"

\* lines 167-172
status_co2(co2_avg) ==
    IF co2_avg.num < CO2_WASPADA * co2_avg.den THEN "Normal"
    ELSE IF CO2_WASPADA * co2_avg.den <= co2_avg.num
            /\ co2_avg.num <= CO2_TINGGI * co2_avg.den THEN "Waspada"
    ELSE "Tinggi"

\* lines 175-180
status_ch4(ch4_avg) ==
    IF ch4_avg.num < CH4_WASPADA * ch4_avg.den THEN "Normal"
    ELSE IF CH4_WASPADA * ch4_avg.den <= ch4_avg.num
            /\ ch4_avg.num <= CH4_TINGGI * ch4_avg.den THEN "Waspada"
    ELSE "Tinggi"

\* line 182
status_levels == [Normal |-> 1, Waspada |-> 2, Tinggi |-> 3]

\* mutant: the levels of Waspada and Tinggi are swapped in status_levels
overall_status_misranked(a, b) ==
    LET lv == [Normal |-> 1, Waspada |-> 3, Tinggi |-> 2]
    IN  IF lv[b] > lv[a] THEN b ELSE a

\* lines 183-184: max([status_co2, status_ch4], key=...), the first of equal maxima
overall_status(a, b) == IF status_levels[b] > status_levels[a] THEN b ELSE a

\* lines 166-184, from the two averages to the three statuses
kpi_status(co2_avg, ch4_avg) ==
    [status_co2 |-> status_co2(co2_avg),
     status_ch4 |-> status_ch4(ch4_avg),
     overall_status |-> overall_status(status_co2(co2_avg), status_ch4(ch4_avg))]

(***************************************************************************)
(* Values the variables of a part hold while another part is checked.      *)
(***************************************************************************)
NoFrame == [state |-> "absent", rows |-> <<>>, by |-> 0]
NoLabel == [state |-> "absent", status |-> "", by |-> 0]
NoCal == [start |-> 0, end |-> 0, today |-> 0]
NoHandler == [trigger |-> "none", by |-> 0, fetched_empty |-> FALSE, outcome |-> "none",
              wrote |-> <<>>]
NoRuns == [prev |-> -1, last |-> -1]
Missing == [shape |-> "missing", items |-> <<>>]
NoResponse == [kind |-> "none", hourly |-> "missing", time |-> Missing,
               carbon_dioxide |-> Missing, methane |-> Missing]
NoResult == [raised |-> "none", df |-> EmptyFrame]
NoPred == [kind |-> "none", a |-> 0, b |-> 0]
NoOut == [exc |-> "none", df |-> EmptyFrame]
NoAvg == [co2 |-> [num |-> 0, den |-> 1], ch4 |-> [num |-> 0, den |-> 1]]
NoStatus == [status_co2 |-> "", status_ch4 |-> "", overall_status |-> ""]

GuiIdle ==
    /\ pc = "start" /\ clock = 0 /\ view = "none" /\ gen = 0 /\ opened_at = 0
    /\ wilayah = "Jakarta Pusat" /\ cal = NoCal
    /\ graph = NoFrame /\ kpi = NoLabel /\ tree = <<>> /\ buttons = <<>>
    /\ timers = <<>> /\ last = NoHandler /\ runs = NoRuns

FetchIdle ==
    /\ f_stage = "idle" /\ f_resp = NoResponse /\ f_res = NoResult
    /\ f_pred = NoPred /\ f_out = NoOut /\ f_again = NoOut

KpiIdle == k_in = NoAvg /\ k_out = NoStatus /\ k_prev = [in |-> NoAvg, out |-> NoStatus]

(***************************************************************************)
(* SpecFetch: the fetcher and the filters on every payload of the bounds.  *)
(***************************************************************************)
SeqsUpTo(S, n) == UNION {[1..k -> S] : k \in 0..n}

Fields(S) ==
    {Missing}
    \cup {[shape |-> "scalar", items |-> <<x>>] : x \in S}
    \cup {[shape |-> "array", items |-> s] : s \in SeqsUpTo(S, MaxLen)}

BadTime == [ok |-> FALSE, date |-> 0, hour |-> 0]
RawTimes ==
    {[ok |-> TRUE, date |-> d, hour |-> 0] : d \in 0..MaxDate}
    \cup {[ok |-> TRUE, date |-> 0, hour |-> 23], BadTime}
Co2Values == {440, 510}
Ch4Values == {1975}

Responses ==
    {[NoResponse EXCEPT !.kind = k] :
        k \in {"transport_error", "timeout", "not_json", "json_number", "json_array"}}
    \cup {[NoResponse EXCEPT !.kind = "json_object", !.hourly = h] : h \in {"missing", "null"}}
    \cup [kind : {"json_object"}, hourly : {"object"}, time : Fields(RawTimes),
          carbon_dioxide : Fields(Co2Values), methane : Fields(Ch4Values)]

Preds ==
    {[kind |-> "today", a |-> d, b |-> 0] : d \in 0..MaxDate}
    \cup {[kind |-> "future", a |-> t, b |-> 0] : t \in {0, MinutesPerDay \div 2}}
    \cup {[kind |-> "period", a |-> d, b |-> e] : d, e \in 0..MaxDate}

\* the payload is what section 6 of the API contract expects: three parallel arrays
WellFormed(resp) ==
    /\ resp.kind = "json_object" /\ resp.hourly = "object"
    /\ resp.time.shape = "array" /\ resp.carbon_dioxide.shape = "array"
    /\ resp.methane.shape = "array"
    /\ \A i \in DOMAIN resp.time.items : resp.time.items[i].ok
    /\ Len(resp.time.items) = Len(resp.carbon_dioxide.items)
    /\ Len(resp.time.items) = Len(resp.methane.items)

InitFetch ==
    /\ GuiIdle /\ KpiIdle
    /\ f_stage = "request" /\ f_resp \in Responses /\ f_res = NoResult
    /\ f_pred = NoPred /\ f_out = NoOut /\ f_again = NoOut

FetchStep ==
    /\ f_stage = "request"
    /\ f_res' = get_air_quality_data(f_resp)
    /\ f_stage' = IF f_res'.raised = "none" THEN "fetched" ELSE "raised"
    /\ UNCHANGED <<f_resp, f_pred, f_out, f_again>>

\* a view's filter line applied to what the fetcher returned
filter_step(df, p) ==
    IF p.kind # "future" /\ dt_accessor_raises(df)
    THEN [exc |-> "AttributeError", df |-> EmptyFrame]
    ELSE [exc |-> "none", df |-> apply_filter(df, p)]

FilterStep ==
    /\ f_stage = "fetched"
    /\ \E p \in Preds :
          /\ f_pred' = p
          /\ f_out' = filter_step(f_res.df, p)
    /\ f_stage' = IF f_out'.exc = "none" THEN "filtered" ELSE "raised"
    /\ UNCHANGED <<f_resp, f_res, f_again>>

RefilterStep ==
    /\ f_stage = "filtered"
    /\ f_again' = filter_step(f_out.df, f_pred)
    /\ f_stage' = "refiltered"
    /\ UNCHANGED <<f_resp, f_res, f_pred, f_out>>

NextFetch ==
    \/ (FetchStep /\ UNCHANGED <<gui_vars, kpi_vars>>)
    \/ (FilterStep /\ UNCHANGED <<gui_vars, kpi_vars>>)
    \/ (RefilterStep /\ UNCHANGED <<gui_vars, kpi_vars>>)

SpecFetch == InitFetch /\ [][NextFetch]_vars

(***************************************************************************)
(* SpecKpi: the classifier on averaged values around its thresholds,       *)
(* in tenths of a unit.                                                    *)
(***************************************************************************)
Co2Avgs == {[num |-> v, den |-> 10] : v \in {4499, 4500, 4501, 4600, 5000, 5001}}
Ch4Avgs == {[num |-> v, den |-> 10] : v \in {10000, 19499, 19500, 19501, 20000, 20001}}

InitKpi ==
    /\ GuiIdle /\ FetchIdle
    /\ k_in \in [co2 : Co2Avgs, ch4 : Ch4Avgs]
    /\ k_out = kpi_status(k_in.co2, k_in.ch4)
    /\ k_prev = [in |-> k_in, out |-> k_out]

\* show_kpi runs again on other averages
KpiStep ==
    /\ \E a \in [co2 : Co2Avgs, ch4 : Ch4Avgs] :
          /\ k_in' = a
          /\ k_out' = kpi_status(a.co2, a.ch4)
    /\ k_prev' = [in |-> k_in, out |-> k_out]

NextKpi == KpiStep /\ UNCHANGED <<gui_vars, fetch_vars>>

SpecKpi == InitKpi /\ [][NextKpi]_vars

(***************************************************************************)
(* Spec: the program from line 503 on.  Widgets carry the generation of    *)
(* the show_* call whose closure drew them (by); a closure of generation g *)
(* holds frames that exist only while g is the current generation.         *)
(***************************************************************************)
refresh_interval == 600000
max_days == 7

IntervalMin == refresh_interval \div MsPerMinute
TickMin == IntervalMin \div 2

\* two of the six keys of wilayah_coords; the first is every view's default
Wilayah == {"Jakarta Pusat", "Jakarta Barat"}
GuiDates == 0..2

\* the clock at program start: day 1 at noon, or day 1 just before midnight
Noon == MinutesPerDay + MinutesPerDay \div 2
BeforeMidnight == 2 * MinutesPerDay - TickMin
StartTimes == {Noon, BeforeMidnight}

\* the start time of the run that has reached clock value c
StartOf(c) == IF c >= BeforeMidnight THEN BeforeMidnight ELSE Noon

Arr(s) == [shape |-> "array", items |-> s]
T(d, h) == [ok |-> TRUE, date |-> d, hour |-> h]

\* what the API may answer while the program runs
GuiResponses ==
    {[NoResponse EXCEPT !.kind = "transport_error"],
     [NoResponse EXCEPT !.kind = "json_object"],
     [kind |-> "json_object", hourly |-> "object", time |-> Arr(<<T(1, 23), T(2, 0)>>),
      carbon_dioxide |-> Arr(<<440, 460>>), methane |-> Arr(<<1000, 1975>>)],
     [kind |-> "json_object", hourly |-> "object", time |-> Arr(<<T(2, 0)>>),
      carbon_dioxide |-> Arr(<<510>>), methane |-> Arr(<<2010>>)]}

\* lines 112-148: graph_frame.winfo_children() raises TclError on a destroyed frame
plot_graph(df, g, cur, old) ==
    IF g # cur THEN [exc |-> "TclError", graph |-> old]
    ELSE IF empty(df) THEN [exc |-> "none", graph |-> [state |-> "nodata", rows |-> <<>>, by |-> g]]
    ELSE [exc |-> "none", graph |-> [state |-> "chart", rows |-> df.rows, by |-> g]]

\* lines 154-197
show_kpi(df, g, cur, old) ==
    IF g # cur THEN [exc |-> "TclError", kpi |-> old]
    ELSE IF empty(df) THEN [exc |-> "none", kpi |-> [state |-> "nodata", status |-> "", by |-> g]]
    ELSE [exc |-> "none",
          kpi |-> [state |-> "label",
                   status |-> kpi_status(mean(df, "CO2_ppm"),
                                         mean(df, "CH4_ppb")).overall_status,
                   by |-> g]]

SaveButton(df, label, g) == [label |-> label, is_save_button |-> TRUE, df |-> df, by |-> g]

\* mutant: the earlier export controls are not destroyed
add_save_button_keep_old(btns, df, label, g) == Append(btns, SaveButton(df, label, g))

\* lines 203-227: content_frame is never destroyed, so this never raises
add_save_button(btns, df, label, g) ==
    Append(SelectSeq(btns, LAMBDA b : ~b.is_save_button), SaveButton(df, label, g))

\* DataFrame.to_csv(index=False): the header line, then one line per row
to_csv(df) ==
    <<[Waktu |-> "Waktu", CO2_ppm |-> "CO2_ppm", CH4_ppb |-> "CH4_ppb"]>>
    \o [i \in 1..Len(df.rows) |->
          [Waktu |-> <<DateOf(df.rows[i].Waktu), HourOf(df.rows[i].Waktu),
                       MinuteOf(df.rows[i].Waktu), 0>>,
           CO2_ppm |-> df.rows[i].CO2_ppm,
           CH4_ppb |-> df.rows[i].CH4_ppb]]

\* line 394: row["Waktu"].strftime("%Y-%m-%d %H:%M")
strftime(ts) == <<DateOf(ts), HourOf(ts), MinuteOf(ts)>>

UI == [graph |-> graph, kpi |-> kpi, tree |-> tree, buttons |-> buttons, timers |-> timers]

Handled(u, trigger, g, fetched_empty, outcome) ==
    [ui |-> u,
     last |-> [trigger |-> trigger, by |-> g, fetched_empty |-> fetched_empty,
               outcome |-> outcome, wrote |-> <<>>]]

\* mutant: the export control and the next timer are set up before the drawing
update_graph_schedule_first(u, trigger, g, cur, now, resp) ==
    LET res == get_air_quality_data(resp)
        df == res.df
    IN  IF res.raised # "none" THEN Handled(u, trigger, g, empty(df), res.raised)
        ELSE IF dt_accessor_raises(df)
        THEN Handled(u, trigger, g, empty(df), "AttributeError")
        ELSE LET df_today == filter_today(df, DateOf(now))
                 v == [u EXCEPT !.buttons = add_save_button(u.buttons, df_today,
                                                            "Simpan CSV Realtime", g),
                                !.timers = Append(u.timers,
                                                  [by |-> g, kind |-> "realtime",
                                                   due |-> now + IntervalMin])]
                 p == plot_graph(df_today, g, cur, u.graph)
                 k == show_kpi(df_today, g, cur, u.kpi)
             IN  IF p.exc # "none" THEN Handled(v, trigger, g, empty(df), p.exc)
                 ELSE IF k.exc # "none"
                 THEN Handled([v EXCEPT !.graph = p.graph], trigger, g, empty(df), k.exc)
                 ELSE Handled([v EXCEPT !.graph = p.graph, !.kpi = k.kpi],
                              trigger, g, empty(df), "ok")

\* lines 260-269, run by the closure of generation g while generation cur is shown
update_graph(u, trigger, g, cur, now, resp) ==
    LET res == get_air_quality_data(resp)
        df == res.df
    IN  IF res.raised # "none" THEN Handled(u, trigger, g, empty(df), res.raised)
        ELSE IF dt_accessor_raises(df)
        THEN Handled(u, trigger, g, empty(df), "AttributeError")
        ELSE LET df_today == filter_today(df, DateOf(now))
                 p == plot_graph(df_today, g, cur, u.graph)
                 k == show_kpi(df_today, g, cur, u.kpi)
             IN  IF p.exc # "none" THEN Handled(u, trigger, g, empty(df), p.exc)
                 ELSE IF k.exc # "none"
                 THEN Handled([u EXCEPT !.graph = p.graph], trigger, g, empty(df), k.exc)
                 ELSE Handled([u EXCEPT !.graph = p.graph, !.kpi = k.kpi,
                                 !.buttons = add_save_button(u.buttons, df_today,
                                                             "Simpan CSV Realtime", g),
                                 !.timers = Append(u.timers,
                                                   [by |-> g, kind |-> "realtime",
                                                    due |-> now + IntervalMin])],
                              trigger, g, empty(df), "ok")

\* lines 301-309; comparing the empty frame's Waktu column with now selects nothing
update_forecast(u, trigger, g, cur, now, resp) ==
    LET res == get_air_quality_data(resp)
        df == res.df
        df_forecast == filter_future(df, now)
        p == plot_graph(df_forecast, g, cur, u.graph)
    IN  IF res.raised # "none" THEN Handled(u, trigger, g, empty(df), res.raised)
        ELSE IF p.exc # "none" THEN Handled(u, trigger, g, empty(df), p.exc)
        ELSE Handled([u EXCEPT !.graph = p.graph,
                        !.buttons = add_save_button(u.buttons, df_forecast,
                                                    "Simpan CSV Forecast", g),
                        !.timers = Append(u.timers,
                                          [by |-> g, kind |-> "forecast",
                                           due |-> now + IntervalMin])],
                     trigger, g, empty(df), "ok")

\* lines 383-397
ambil_data(u, g, c, resp) ==
    LET res == get_air_quality_data(resp)
        df == res.df
    IN  IF res.raised # "none" THEN Handled(u, "query", g, empty(df), res.raised)
        ELSE IF dt_accessor_raises(df)
        THEN Handled(u, "query", g, empty(df), "AttributeError")
        ELSE LET df_period == filter_period(df, c.start, c.end)
             IN  Handled([u EXCEPT !.tree = [i \in 1..Len(df_period.rows) |->
                                               <<strftime(df_period.rows[i].Waktu),
                                                 df_period.rows[i].CO2_ppm,
                                                 df_period.rows[i].CH4_ppb>>],
                             !.buttons = add_save_button(u.buttons, df_period,
                                                         "Simpan CSV Periode", g)],
                          "query", g, empty(df), "ok")

refresh(kind, u, trigger, g, cur, now, resp) ==
    IF kind = "realtime" THEN update_graph(u, trigger, g, cur, now, resp)
    ELSE update_forecast(u, trigger, g, cur, now, resp)

\* lines 103-106 and the widgets a show_* function packs before its first refresh
Built(kind, g) ==
    [graph |-> IF kind \in {"realtime", "forecast"}
               THEN [state |-> "blank", rows |-> <<>>, by |-> g] ELSE NoFrame,
     kpi |-> IF kind = "realtime" THEN [state |-> "blank", status |-> "", by |-> g]
             ELSE NoLabel,
     tree |-> <<>>,
     buttons |-> IF kind = "periode"
                 THEN <<[label |-> "Ambil Data", is_save_button |-> FALSE,
                         df |-> EmptyFrame, by |-> g]>>
                 ELSE <<>>,
     timers |-> timers]

SetUI(r) ==
    /\ graph' = r.ui.graph /\ kpi' = r.ui.kpi /\ tree' = r.ui.tree
    /\ buttons' = r.ui.buttons /\ timers' = r.ui.timers
    /\ last' = r.last

Opened(kind) ==
    /\ view' = kind /\ gen' = gen + 1 /\ opened_at' = clock
    /\ wilayah' = "Jakarta Pusat" /\ runs' = NoRuns
    /\ cal' = IF kind = "periode"
              THEN [start |-> DateOf(clock), end |-> DateOf(clock), today |-> DateOf(clock)]
              ELSE NoCal

Init ==
    /\ FetchIdle /\ KpiIdle
    /\ pc = "start" /\ clock \in StartTimes /\ view = "none" /\ gen = 0 /\ opened_at = 0
    /\ wilayah = "Jakarta Pusat" /\ cal = NoCal
    /\ graph = NoFrame /\ kpi = NoLabel /\ tree = <<>> /\ buttons = <<>>
    /\ timers = <<>> /\ last = NoHandler /\ runs = NoRuns

\* line 503: show_realtime() before the main loop; an exception ends the program
Start ==
    /\ pc = "start"
    /\ \E resp \in GuiResponses :
         LET r == update_graph(Built("realtime", gen + 1), "load", gen + 1, gen + 1,
                               clock, resp)
         IN  /\ SetUI(r)
             /\ pc' = IF r.last.outcome = "ok" THEN "mainloop" ELSE "crashed"
    /\ Opened("realtime")
    /\ UNCHANGED clock

\* lines 233-272 and 276-312, from a sidebar button
ShowView(kind) ==
    /\ pc = "mainloop" /\ gen < MaxGen /\ Len(timers) < MaxTimers
    /\ \E resp \in GuiResponses :
         SetUI(refresh(kind, Built(kind, gen + 1), "load", gen + 1, gen + 1, clock, resp))
    /\ Opened(kind)
    /\ UNCHANGED <<pc, clock>>

ShowRealtime == ShowView("realtime")

ShowForecast == ShowView("forecast")

\* lines 318-404: builds the view, fetches nothing
ShowDataPeriode ==
    /\ pc = "mainloop" /\ gen < MaxGen
    /\ SetUI(Handled(Built("periode", gen + 1), "load", gen + 1, FALSE, "ok"))
    /\ Opened("periode")
    /\ UNCHANGED <<pc, clock>>

\* lines 410-448
ShowAbout ==
    /\ pc = "mainloop" /\ gen < MaxGen
    /\ SetUI(Handled(Built("about", gen + 1), "load", gen + 1, FALSE, "ok"))
    /\ Opened("about")
    /\ UNCHANGED <<pc, clock>>

\* lines 271 and 311: <<ComboboxSelected>> in the Realtime or Forecast view
SelectWilayah ==
    /\ pc = "mainloop" /\ view \in {"realtime", "forecast"} /\ Len(timers) < MaxTimers
    /\ \E w \in Wilayah : wilayah' = w
    /\ \E resp \in GuiResponses :
         SetUI(refresh(view, UI, "select", gen, gen, clock, resp))
    /\ UNCHANGED <<pc, clock, view, gen, opened_at, cal, runs>>

\* lines 329-335: the Period view's selector has no handler bound
SelectWilayahPeriode ==
    /\ pc = "mainloop" /\ view = "periode"
    /\ \E w \in Wilayah : wilayah' = w
    /\ UNCHANGED <<pc, clock, view, gen, opened_at, cal, graph, kpi, tree, buttons,
                   timers, last, runs>>

\* lines 343-367: the user picks dates within mindate..maxdate
PickDates ==
    /\ pc = "mainloop" /\ view = "periode"
    /\ \E s, e \in {d \in GuiDates : cal.today - max_days <= d /\ d <= cal.today} :
         cal' = [cal EXCEPT !.start = s, !.end = e]
    /\ UNCHANGED <<pc, clock, view, gen, opened_at, wilayah, graph, kpi, tree, buttons,
                   timers, last, runs>>

\* line 404: the Ambil Data button
AmbilData ==
    /\ pc = "mainloop" /\ view = "periode"
    /\ \E resp \in GuiResponses : SetUI(ambil_data(UI, gen, cal, resp))
    /\ UNCHANGED <<pc, clock, view, gen, opened_at, wilayah, cal, runs>>

\* lines 269 and 309: a root.after callback comes due; Tk runs it once
TimerFires ==
    /\ pc = "mainloop" /\ timers # <<>> /\ Head(timers).due <= clock
    /\ \E resp \in GuiResponses :
         SetUI(refresh(Head(timers).kind, [UI EXCEPT !.timers = Tail(timers)], "timer",
                       Head(timers).by, gen, clock, resp))
    /\ runs' = IF Head(timers).by = gen THEN [prev |-> runs.last, last |-> clock] ELSE runs
    /\ UNCHANGED <<pc, clock, view, gen, opened_at, wilayah, cal>>

\* lines 209-216: an export control is activated and a path chosen
SaveCsv ==
    /\ pc = "mainloop"
    /\ \E i \in DOMAIN buttons :
         /\ buttons[i].is_save_button
         /\ last' = [trigger |-> "save", by |-> buttons[i].by, fetched_empty |-> FALSE,
                     outcome |-> "ok", wrote |-> to_csv(buttons[i].df)]
    /\ UNCHANGED <<pc, clock, view, gen, opened_at, wilayah, cal, graph, kpi, tree,
                   buttons, timers, runs>>

\* time passes while the main loop has no callback due
Tick ==
    /\ pc = "mainloop"
    /\ clock + TickMin <= StartOf(clock) + MaxTicks * TickMin
    /\ \A i \in DOMAIN timers : timers[i].due > clock
    /\ clock' = clock + TickMin
    /\ UNCHANGED <<pc, view, gen, opened_at, wilayah, cal, graph, kpi, tree, buttons,
                   timers, last, runs>>

Next ==
    \/ (Start /\ UNCHANGED <<fetch_vars, kpi_vars>>)
    \/ (ShowRealtime /\ UNCHANGED <<fetch_vars, kpi_vars>>)
    \/ (ShowForecast /\ UNCHANGED <<fetch_vars, kpi_vars>>)
    \/ (ShowDataPeriode /\ UNCHANGED <<fetch_vars, kpi_vars>>)
    \/ (ShowAbout /\ UNCHANGED <<fetch_vars, kpi_vars>>)
    \/ (SelectWilayah /\ UNCHANGED <<fetch_vars, kpi_vars>>)
    \/ (SelectWilayahPeriode /\ UNCHANGED <<fetch_vars, kpi_vars>>)
    \/ (PickDates /\ UNCHANGED <<fetch_vars, kpi_vars>>)
    \/ (AmbilData /\ UNCHANGED <<fetch_vars, kpi_vars>>)
    \/ (TimerFires /\ UNCHANGED <<fetch_vars, kpi_vars>>)
    \/ (SaveCsv /\ UNCHANGED <<fetch_vars, kpi_vars>>)
    \/ (Tick /\ UNCHANGED <<fetch_vars, kpi_vars>>)

Spec == Init /\ [][Next]_vars

(***************************************************************************)
(* Claims about the running program (Spec).                                *)
(***************************************************************************)
\* the last handler was a refresh run by the view now on display
RefreshOfCurrent == last.by = gen /\ last.trigger \in {"load", "select", "timer", "query"}

NoDataShown == IF view = "periode" THEN tree = <<>> ELSE graph.state = "nodata"

\* C2: when the fetcher returns the empty Series, the refresh of the view on
\* display completes and the view shows the "no data" state; the program
\* survives the first load too.
C2_EmptyFetchRendersNoData ==
    /\ pc # "crashed"
    /\ (RefreshOfCurrent /\ last.fetched_empty) =>
          (last.outcome = "ok" /\ NoDataShown)

\* C3: one elapse of the interval causes one fetch for the view on display:
\* two timer-driven refreshes of that view are never less than one interval
\* apart.
C3_OneFetchPerInterval ==
    runs.prev >= 0 => runs.last - runs.prev >= IntervalMin

\* C4: while the Realtime or Forecast view is on display, a timer-driven
\* refresh of it is pending after every refresh, whatever the fetch returned.
C4_RefreshRearmed ==
    (pc = "mainloop" /\ view \in {"realtime", "forecast"}) =>
        \E i \in DOMAIN timers : timers[i].by = gen

\* the rows on display, as text: the chart's points or the table's rows
DisplayedRows ==
    IF view = "periode"
    THEN [i \in 1..Len(tree) |->
            [Waktu |-> tree[i][1], CO2_ppm |-> tree[i][2], CH4_ppb |-> tree[i][3]]]
    ELSE [i \in 1..Len(graph.rows) |->
            [Waktu |-> strftime(graph.rows[i].Waktu), CO2_ppm |-> graph.rows[i].CO2_ppm,
             CH4_ppb |-> graph.rows[i].CH4_ppb]]

\* the file is the header line followed by the displayed rows, in order
ExportsDisplayed(lines) ==
    /\ lines[1] = [Waktu |-> "Waktu", CO2_ppm |-> "CO2_ppm", CH4_ppb |-> "CH4_ppb"]
    /\ Len(lines) = 1 + Len(DisplayedRows)
    /\ \A j \in 1..Len(DisplayedRows) :
          /\ SubSeq(lines[j + 1].Waktu, 1, 3) = DisplayedRows[j].Waktu
          /\ lines[j + 1].CO2_ppm = DisplayedRows[j].CO2_ppm
          /\ lines[j + 1].CH4_ppb = DisplayedRows[j].CH4_ppb

SaveButtons == SelectSeq(buttons, LAMBDA b : b.is_save_button)

\* C8: a view holds at most one export control, and what it writes is the
\* header line and one line per row of the view's most recent render, in
\* order.
C8_OneExportControl ==
    /\ Len(SaveButtons) <= 1
    /\ \A i \in DOMAIN SaveButtons : ExportsDisplayed(to_csv(SaveButtons[i].df))
    /\ last.trigger = "save" => ExportsDisplayed(last.wrote)

C8_Witness ==
    /\ view = "periode" /\ cal.start = cal.today /\ cal.end = cal.today
    /\ Len(tree) = 1
    /\ last.trigger = "save" /\ Len(last.wrote) = 2

\* C10: a timer armed by a view that was left draws nothing into the view on
\* display and is not armed again: every widget on display was drawn by the
\* current view, an orphaned callback ends without completing, and every
\* pending orphaned timer was armed before its view was left.
C10_OrphanTimerHarmless ==
    /\ graph.state # "absent" => graph.by = gen
    /\ kpi.state # "absent" => kpi.by = gen
    /\ \A i \in DOMAIN buttons : buttons[i].by = gen
    /\ \A i \in DOMAIN timers :
          timers[i].by # gen => timers[i].due <= opened_at + IntervalMin
    /\ (last.trigger = "timer" /\ last.by # gen) => last.outcome # "ok"

C10_Witness ==
    /\ last.trigger = "timer" /\ last.by # gen /\ last.outcome = "TclError"
    /\ view = "forecast" /\ graph.state = "chart" /\ Len(SaveButtons) = 1
    /\ \A i \in DOMAIN timers : timers[i].by = gen

(***************************************************************************)
(* Claims about the fetcher and the filters (SpecFetch).                   *)
(***************************************************************************)
Fetched == f_stage \in {"fetched", "filtered", "refiltered"}

ThreeArrays(resp) ==
    /\ resp.kind = "json_object" /\ resp.hourly = "object"
    /\ resp.time.shape = "array" /\ resp.carbon_dioxide.shape = "array"
    /\ resp.methane.shape = "array"
    /\ Len(resp.time.items) > 0 /\ Len(resp.carbon_dioxide.items) > 0
    /\ Len(resp.methane.items) > 0
    /\ \A i \in DOMAIN resp.time.items : resp.time.items[i].ok

Min2(a, b) == IF a <= b THEN a ELSE b

\* C1: get_air_quality_data never raises, returns the empty Series for every
\* failed or malformed outcome, and a non-empty Series only for a well-formed
\* payload.
C1_EmptyUnlessWellFormed ==
    f_stage # "request" =>
        /\ f_res.raised = "none"
        /\ (~WellFormed(f_resp) => empty(f_res.df))

\* C7 as stated: with three non-empty arrays the Series is as long as the
\* shorter gas array and its i-th timestamp is parsed from the i-th time.
C7_LengthOfShorterArray ==
    (Fetched /\ ThreeArrays(f_resp)) =>
        /\ Len(f_res.df.rows) = Min2(Len(f_resp.carbon_dioxide.items),
                                     Len(f_resp.methane.items))
        /\ \A i \in DOMAIN f_res.df.rows :
              f_res.df.rows[i].Waktu = to_datetime(f_resp.time.items[i])

\* C7 as amended: with three non-empty arrays of one common length the Series
\* has that length, its i-th row holding the i-th parsed time and the i-th
\* value of each gas; when the lengths differ the Series is empty.
C7_CommonLengthOrEmpty ==
    (Fetched /\ ThreeArrays(f_resp)) =>
        IF Len(f_resp.time.items) = Len(f_resp.carbon_dioxide.items)
           /\ Len(f_resp.time.items) = Len(f_resp.methane.items)
        THEN /\ Len(f_res.df.rows) = Len(f_resp.time.items)
             /\ \A i \in DOMAIN f_res.df.rows :
                   /\ DateOf(f_res.df.rows[i].Waktu) = f_resp.time.items[i].date
                   /\ HourOf(f_res.df.rows[i].Waktu) = f_resp.time.items[i].hour
                   /\ f_res.df.rows[i].CO2_ppm = f_resp.carbon_dioxide.items[i]
                   /\ f_res.df.rows[i].CH4_ppb = f_resp.methane.items[i]
        ELSE empty(f_res.df)

C7_Witness ==
    /\ Fetched /\ ThreeArrays(f_resp)
    /\ Len(f_res.df.rows) = MaxLen
    /\ f_res.df.rows[1].Waktu # f_res.df.rows[MaxLen].Waktu
    /\ f_res.df.rows[1].CO2_ppm # f_res.df.rows[MaxLen].CO2_ppm

\* C9: filtering a filtered Series again by the same predicate changes
\* nothing, and a filtered Series is an order-preserving sub-sequence of the
\* fetched one.
C9_FilterIdempotent ==
    /\ f_stage = "filtered" => IsSubSeq(f_out.df.rows, f_res.df.rows)
    /\ f_stage = "refiltered" =>
          /\ f_again = f_out
          /\ IsSubSeq(f_out.df.rows, f_res.df.rows)

C9_Witness ==
    /\ f_stage = "refiltered"
    /\ f_pred.kind = "today"
    /\ Len(f_out.df.rows) > 0
    /\ Len(f_out.df.rows) < Len(f_res.df.rows)
    /\ f_again.df.rows = f_out.df.rows

(***************************************************************************)
(* Claims about the status classifier (SpecKpi).                           *)
(***************************************************************************)
Severity == <<"Normal", "Waspada", "Tinggi">>
Rank(s) == CHOOSE i \in DOMAIN Severity : Severity[i] = s

\* the bucket the claim gives a value: below lo, lo..hi inclusive, above hi
Bucket(avg, lo, hi) ==
    CASE avg.num < lo * avg.den -> "Normal"
      [] avg.num > hi * avg.den -> "Tinggi"
      [] OTHER -> "Waspada"

AvgLeq(a, b) == a.num * b.den <= b.num * a.den

C6_Monotonic ==
    (AvgLeq(k_prev.in.co2, k_in.co2) /\ AvgLeq(k_prev.in.ch4, k_in.ch4)) =>
        Rank(k_out.overall_status) >= Rank(k_prev.out.overall_status)

C6_Witness ==
    /\ AvgLeq(k_prev.in.co2, k_in.co2) /\ AvgLeq(k_prev.in.ch4, k_in.ch4)
    /\ k_prev.in.ch4 # k_in.ch4
    /\ k_prev.out.status_co2 = "Tinggi" /\ k_prev.out.status_ch4 = "Normal"
    /\ k_out.status_ch4 = "Waspada" /\ k_out.overall_status = "Tinggi"

====
